---- MODULE Spec2Model ----
(***************************************************************************)
(* Relativistic two-body reaction kinematics (reaction_kinematics.py):     *)
(* the TwoBody object, its constructor (_compute), the lazily built        *)
(* table (_build_table), the inverse interpolation at_value with _unique,  *)
(* and compute_arrays.                                                     *)
(*                                                                         *)
(* Numbers.  The solver (_compute) is modelled in exact arithmetic on      *)
(* integer masses and energies: every test it makes (s <= 0, pcm2 < 0,     *)
(* thetatest < 1, abs(thetatest - 1) < 1e-3, a zero divisor) is decided on *)
(* the squares, which are rational.  The one rounding of the solver that   *)
(* changes an outcome on such inputs is kept as an input: an energy too    *)
(* small to change the float s (eklost).  The interpolation works on Python*)
(* floats; the model keeps their behaviour (round to nearest, ties to      *)
(* even, gradual underflow) in a binary format of MantBits significant     *)
(* bits whose values are integers counted in units of the smallest         *)
(* subnormal; 1.0 is One units, far enough above the subnormals for the    *)
(* default duplicate_tol of 1e-6 to be a normal number.  Values stay far   *)
(* below the largest finite number, so overflow to infinity does not       *)
(* occur.  The columns of the table are computed from the masses and the   *)
(* energy and rounded to these floats.                                     *)
(***************************************************************************)
EXTENDS Integers, Sequences, FiniteSets, TLC

VARIABLES pc, self, table, oracle, query, nbuilds, reused, ret

vars == <<pc, self, table, oracle, query, nbuilds, reused, ret>>

(***************************************************************************)
(* Bounds of the model.                                                    *)
(***************************************************************************)
MaxMass == 3
MaxEk == 4
MaxN == 2
MaxNSolve == 1
MantBits == 3
OneExp == 24

(***************************************************************************)
(* Floating point.                                                         *)
(***************************************************************************)
Pow2(n) == 2 ^ n

One == Pow2(OneExp)

Abs(a) == IF a < 0 THEN -a ELSE a

TwoP == Pow2(MantBits)

\* The spacing, times d, of the representable values around the non-negative
\* rational a/d: d * 2^e for the least e >= 0 with a/d < 2^(MantBits + e).
\* The search doubles the step, eight doublings at once while a is that far
\* above it.
RECURSIVE StepOf(_, _)
StepOf(a, step) ==
    IF a < step * TwoP THEN step
    ELSE IF a \div 256 >= step * TwoP THEN StepOf(a, 256 * step)
    ELSE StepOf(a, 2 * step)

\* a/d (a >= 0, d > 0) rounded to the nearest representable value, ties
\* to the even significand.  A quotient of at most one half rounds to zero.
RoundMag(a, d) ==
    IF 2 * a <= d THEN 0
    ELSE LET step == StepOf(a, d)
             lo == a \div step
             rem == a - lo * step
             m == IF 2 * rem < step THEN lo
                  ELSE IF 2 * rem > step THEN lo + 1
                  ELSE IF lo % 2 = 0 THEN lo ELSE lo + 1
         IN  m * (step \div d)

\* num/den (den # 0) rounded to a float.
Round(num, den) ==
    LET n == IF den < 0 THEN -num ELSE num
        d == Abs(den)
    IN  IF n < 0 THEN -RoundMag(-n, d) ELSE RoundMag(n, d)

Representable(k) == Round(k, 1) = k

RECURSIVE Log2(_)
Log2(p) == IF p <= 1 THEN 0 ELSE 1 + Log2(p \div 2)

\* A float a # 0 is Significand(a) * 2^Exponent(a) units, the significand of
\* at most MantBits bits.
Exponent(a) == Log2(StepOf(Abs(a), 1))
Significand(a) == a \div StepOf(Abs(a), 1)

FAdd(a, b) == Round(a + b, 1)
FSub(a, b) == Round(a - b, 1)

\* (num/den) * 2^e units (num >= 0, den > 0, e >= 0) rounded to a float: the
\* scale moves into num while it fits, what is left of it scales the rounded
\* quotient, which is then above 2^MantBits.
RECURSIVE RoundScaled(_, _, _)
RoundScaled(num, den, e) ==
    IF num = 0 THEN 0
    ELSE IF e = 0 THEN Round(num, den)
    ELSE IF num < Pow2(29) THEN RoundScaled(2 * num, den, e - 1)
    ELSE Round(num, den) * Pow2(e)

\* a * b: the product of the significands, scaled by the sum of the exponents.
FMul(a, b) ==
    IF a = 0 \/ b = 0 THEN 0
    ELSE LET m == Significand(a) * Significand(b)
             e == Exponent(a) + Exponent(b) - OneExp
         IN  IF e >= 0 THEN Round(m, 1) * Pow2(e) ELSE Round(m, Pow2(-e))

\* a / b, b # 0 (a float division by zero raises ZeroDivisionError instead).
\* Below 2^-(MantBits + 1) units the quotient rounds to zero.
FDiv(a, b) ==
    IF a = 0 THEN 0
    ELSE LET e == Exponent(a) - Exponent(b) + OneExp
             sa == Abs(Significand(a))
             sb == Abs(Significand(b))
             q == IF e >= 0 THEN RoundScaled(sa, sb, e)
                  ELSE IF -e > MantBits + 1 THEN 0
                  ELSE Round(sa, sb * Pow2(-e))
         IN  IF (a < 0) = (b < 0) THEN q ELSE -q

\* int / int (true division of two Python ints): the rounded quotient.
IntDiv(i, n) == Round(i * One, n)

(***************************************************************************)
(* Optional values: None, or Some(v).                                      *)
(***************************************************************************)
None == <<>>
Some(v) == <<v>>
Val(o) == o[1]

\* The real number sqrt(n/d), kept by the factors of its square: n and d are
\* sequences of integers, and the square is the quotient of their products.
SqrtQ(n, d) == <<n, d>>

RECURSIVE Gcd(_, _)
Gcd(a, b) == IF b = 0 THEN a ELSE Gcd(b, a % b)

RECURSIVE Product(_)
Product(q) == IF q = <<>> THEN 1 ELSE Head(q) * Product(Tail(q))

\* The factor n and the factors ds, from the j-th on, without what they share.
RECURSIVE Cancel(_, _, _)
Cancel(n, ds, j) ==
    IF j > Len(ds) THEN <<n, ds>>
    ELSE LET g == Gcd(n, ds[j])
         IN  Cancel(n \div g, [ds EXCEPT ![j] = @ \div g], j + 1)

\* a * prod(ns) / prod(ds) in lowest terms, for factors ns >= 0 and ds > 0
\* and a coprime to ds.
RECURSIVE Lowest(_, _, _)
Lowest(ns, ds, a) ==
    IF ns = <<>> THEN <<a, Product(ds)>>
    ELSE LET c == Cancel(Head(ns), ds, 1)
         IN  Lowest(Tail(ns), c[2], a * c[1])

\* The square of the real number t, as the pair of a fraction in lowest terms.
Square(t) == Lowest(t[1], t[2], 1)

\* thetatest < 1.0, for thetatest = sqrt(a/b) with a >= 0, b > 0.  When
\* thetatest is exactly 1 the float computed through sinh(log(.)) lies within
\* rounding of 1.0 on either side: tie is what the comparison then yields.
LessThan1(a, b, tie) == a < b \/ (a = b /\ tie)

\* abs(sqrt(a/b) - 1) < 1e-3, for a >= 0, b > 0: 998001/10^6 < a/b < 1002001/10^6,
\* computed without leaving 32 bits.  When thetatest is exactly 0.999 or 1.001
\* the float lies within rounding of it on either side: tie is what the
\* comparison then yields.
Near1(a, b, tie) ==
    LET hi == 2001 * b
        lo == 1999 * b
    IN  IF a >= b
        THEN \/ (a - b) <= (hi - 1) \div 1000000
             \/ (hi % 1000000 = 0 /\ a - b = hi \div 1000000 /\ tie)
        ELSE \/ (b - a) <= (lo - 1) \div 1000000
             \/ (lo % 1000000 = 0 /\ b - a = lo \div 1000000 /\ tie)

(***************************************************************************)
(* TwoBody.__init__: the fields before _compute.                           *)
(***************************************************************************)
\* ek is a whole number of units; eklost is set by LostEnergy.
NewObject(m1, m2, m3, m4, ek, n) ==
    [m1 |-> m1, m2 |-> m2, m3 |-> m3, m4 |-> m4, ek |-> ek, eklost |-> FALSE,
     ncoscm |-> n, nogo |-> FALSE,
     cmcos3max |-> "2.0", cmcos4max |-> "2.0",
     e3atmaxang |-> "-1.0", e4atmaxang |-> "-1.0",
     theta3max |-> None, theta4max |-> None,
     s |-> None, pcm |-> None, pcmp |-> None, cmrap |-> None,
     thesinh |-> None, thecosh |-> None, e03 |-> None, e04 |-> None,
     emax3 |-> None, emin3 |-> None, emax4 |-> None, emin4 |-> None]

\* The object of an energy that is positive but so small that the float sum
\* of line 172 drops it: (m1 + m2)**2 + 2.0 * m2 * ek evaluates to
\* (m1 + m2)**2, as it does for ek = 0.
LostEnergy(o) == [o EXCEPT !.ek = 0, !.eklost = TRUE]

Returned(o) == [exc |-> "none", obj |-> o]
Raised(e, o) == [exc |-> e, obj |-> o]

(***************************************************************************)
(* TwoBody._compute, in four parts: the invariants up to the energy        *)
(* extrema, then the maximum-angle blocks of particles 3 and 4.            *)
(* thesinh = sinh(log((sqrt(m2^2 + pcm^2) + pcm)/m2)) = pcm/m2, so         *)
(* thetatest = pcmp/(m * thesinh) has the square pcmp2*m2^2/(m^2*pcm2).    *)
(* pcm2 = (s - m1^2 - m2^2)^2 - 4 m1^2 m2^2 is a difference of squares,    *)
(* the product of s - (m1 + m2)^2 and s - (m1 - m2)^2; the solver keeps    *)
(* the two factors, whose product leaves 32 bits when the masses are in    *)
(* the thousands.                                                          *)
(***************************************************************************)
Pcm2Factors(o) ==
    <<Val(o.s) - (o.m1 + o.m2) * (o.m1 + o.m2), Val(o.s) - (o.m1 - o.m2) * (o.m1 - o.m2)>>

Pcmp2Factors(o) ==
    <<Val(o.s) - (o.m3 + o.m4) * (o.m3 + o.m4), Val(o.s) - (o.m3 - o.m4) * (o.m3 - o.m4)>>

Pcm2(o) == Pcm2Factors(o)[1] * Pcm2Factors(o)[2]

Pcmp2(o) == Pcmp2Factors(o)[1] * Pcmp2Factors(o)[2]

\* The sign of the product of the two factors f.
Sign(f) ==
    IF f[1] = 0 \/ f[2] = 0 THEN 0 ELSE IF (f[1] < 0) = (f[2] < 0) THEN 1 ELSE -1

\* Lines 209-224 (j = 3) and 237-247 (j = 4): thetatest and the maximum angle.
\* tt is the thetatest left by the code before: None, or Some real number.
\* theta?max and e?atmaxang are stored before the division by pcmp * thesinh
\* (line 224, 247), which raises when pcmp = 0.
MaxAngle(o, tt, j, tie) ==
    LET m == IF j = 3 THEN o.m3 ELSE o.m4
        f == Pcm2Factors(o)
        g == Pcmp2Factors(o)
        thetatest == SqrtQ(<<Abs(g[1]), Abs(g[2]), o.m2, o.m2>>, <<m, m, Abs(f[1]), Abs(f[2])>>)
        q == Square(thetatest)
        withTheta == IF j = 3
                     THEN [o EXCEPT !.theta3max = Some("asin"), !.e3atmaxang = "computed"]
                     ELSE [o EXCEPT !.theta4max = Some("asin"), !.e4atmaxang = "computed"]
        withAll == IF j = 3
                   THEN [withTheta EXCEPT !.cmcos3max = "computed"]
                   ELSE [withTheta EXCEPT !.cmcos4max = "computed"]
    IN  IF ~(m > 0) THEN [exc |-> "none", obj |-> o, tt |-> tt]
        ELSE IF Sign(f) = 0 THEN [exc |-> "ZeroDivisionError", obj |-> o, tt |-> tt]
        ELSE IF ~LessThan1(q[1], q[2], tie) THEN [exc |-> "none", obj |-> o, tt |-> Some(thetatest)]
        ELSE IF Sign(g) = 0
             THEN [exc |-> "ZeroDivisionError", obj |-> withTheta, tt |-> Some(thetatest)]
        ELSE [exc |-> "none", obj |-> withAll, tt |-> Some(thetatest)]

\* A variant of the elastic case that never forces the angle to pi/2.
ElasticCaseUnforced(o, tt, j, tie) ==
    IF o.m1 + o.m2 # o.m3 + o.m4 THEN Returned(o)
    ELSE IF tt = None THEN Raised("RuntimeError", o)
    ELSE Returned(o)

\* Lines 226-235 (j = 3) and 249-257 (j = 4): the elastic symmetry case.
ElasticCase(o, tt, j, tie) ==
    IF o.m1 + o.m2 # o.m3 + o.m4 THEN Returned(o)
    ELSE IF tt = None THEN Raised("RuntimeError", o)
    ELSE IF ~Near1(Square(Val(tt))[1], Square(Val(tt))[2], tie) THEN Returned(o)
    ELSE IF j = 3
         THEN Returned([o EXCEPT !.theta3max = Some("pi/2"), !.cmcos3max = "-1.0",
                                 !.e3atmaxang = "computed"])
         ELSE Returned([o EXCEPT !.theta4max = Some("pi/2"), !.cmcos4max = "1.0",
                                 !.e4atmaxang = "computed"])

\* Lines 209-257.
MaxAngles(o, tie3, tie4) ==
    LET a3 == MaxAngle(o, None, 3, tie3)
        e3 == ElasticCase(a3.obj, a3.tt, 3, tie3)
        a4 == MaxAngle(e3.obj, a3.tt, 4, tie4)
        e4 == ElasticCase(a4.obj, a4.tt, 4, tie4)
    IN  IF a3.exc # "none" THEN Raised(a3.exc, a3.obj)
        ELSE IF e3.exc # "none" THEN e3
        ELSE IF a4.exc # "none" THEN Raised(a4.exc, a4.obj)
        ELSE e4

\* Lines 170-257.  pcm2 + 4 s m2^2 = (s + m2^2 - m1^2)^2 and
\* pcmp2 + 4 s m3^2 = (s + m3^2 - m4^2)^2 give thecosh, e03 and e04 their
\* factors.  An energy that is lost in s (eklost) leaves no other trace.
_compute(o0, tie3, tie4) ==
    LET s == (o0.m1 + o0.m2) * (o0.m1 + o0.m2) + 2 * o0.m2 * o0.ek
        o1 == [o0 EXCEPT !.s = Some(s)]
        f == Pcm2Factors(o1)
        o2 == [o1 EXCEPT !.pcm = Some(SqrtQ(f, <<4, s>>))]
        c2 == s + o0.m2 * o0.m2 - o0.m1 * o0.m1
        o3 == [o2 EXCEPT !.cmrap = Some("computed"),
                         !.thesinh = Some(SqrtQ(f, <<4, s, o0.m2, o0.m2>>)),
                         !.thecosh = Some(SqrtQ(<<c2, c2>>, <<4, s, o0.m2, o0.m2>>))]
        g == Pcmp2Factors(o1)
        c3 == s + o0.m3 * o0.m3 - o0.m4 * o0.m4
        c4 == s + o0.m4 * o0.m4 - o0.m3 * o0.m3
        o4 == [o3 EXCEPT !.pcmp = Some(SqrtQ(g, <<4, s>>)),
                         !.e03 = Some(SqrtQ(<<c3, c3>>, <<4, s>>)),
                         !.e04 = Some(SqrtQ(<<c4, c4>>, <<4, s>>)),
                         !.emax3 = Some("computed"), !.emin3 = Some("computed"),
                         !.emax4 = Some("computed"), !.emin4 = Some("computed")]
    IN  IF s <= 0 THEN Returned([o1 EXCEPT !.nogo = TRUE])
        ELSE IF Sign(f) < 0 THEN Returned([o1 EXCEPT !.nogo = TRUE])
        ELSE IF o0.m2 = 0 THEN Raised("ZeroDivisionError", o2)
        ELSE IF Sign(g) < 0 THEN Returned([o3 EXCEPT !.nogo = TRUE])
        ELSE MaxAngles(o4, tie3, tie4)

(***************************************************************************)
(* The rows.  _kinematics_at_coscm is a pure function of the object and of *)
(* coscm = i/n.  Its nine derived columns are computed from the masses and *)
(* ek.  With                                                               *)
(*   E = s + m2^2 - m1^2  (thecosh = E / (2 m2 sqrt(s))),                  *)
(*   F = s + m3^2 - m4^2  (e03 = F / (2 sqrt(s))),                         *)
(* both taken positive as sqrt and cosh are, and d = 4 s m2 n:             *)
(*   ppar3  * d = i E sqrt(pcmp2) + n F sqrt(pcm2),                        *)
(*   pperp3 * d = 2 m2 sqrt(pcmp2 s (n^2 - i^2)),                          *)
(*   e3     * d = n E F + i sqrt(pcmp2 pcm2) - m3 d,                       *)
(* ptot3 = hypot(ppar3, pperp3) and v3 = ptot3 / (e3 + m3); particle 4 has *)
(* the same with m3 and m4 exchanged and coscm negated.  Square roots are  *)
(* taken to 16 binary places, angles and lengths by CORDIC in units of     *)
(* 2^-AngleBits, which is finer than the floats of the model can tell      *)
(* apart.                                                                  *)
(***************************************************************************)
RECURSIVE SqrtIter(_, _, _)
SqrtIter(n, lo, hi) ==
    IF lo = hi THEN lo
    ELSE LET mid == (lo + hi + 1) \div 2
         IN  IF mid * mid <= n THEN SqrtIter(n, mid, hi) ELSE SqrtIter(n, lo, mid - 1)

\* floor(sqrt(n)), n < 2^31.
ISqrt(n) == SqrtIter(n, 0, 46340)

\* The largest k <= 14 with n * 4^k < 2^30.
RECURSIVE RootExp(_, _)
RootExp(n, k) == IF k > 0 /\ n >= Pow2(30 - 2 * k) THEN RootExp(n, k - 1) ELSE k

\* sqrt(n) * 2^16, n < 2^30: the integer root of n * 4^k and one Newton step.
Root16(n) ==
    IF n = 0 THEN 0
    ELSE LET k == RootExp(n, 14)
             m == n * Pow2(2 * k)
             r == ISqrt(m)
             j == 16 - k
         IN  r * Pow2(j) + ((m - r * r) * Pow2(j - 1)) \div r

\* c * r stays below 2^29.
Fits(c, r) == c = 0 \/ r < Pow2(29) \div c

\* The invariants of _compute the rows depend on.
SOf(o) == (o.m1 + o.m2) * (o.m1 + o.m2) + 2 * o.m2 * o.ek
CoshNum(o) == Abs(SOf(o) + o.m2 * o.m2 - o.m1 * o.m1)
E03Num(o) == Abs(SOf(o) + o.m3 * o.m3 - o.m4 * o.m4)
Pcm2Of(o) == Pcm2([o EXCEPT !.s = Some(SOf(o))])
Pcmp2Of(o) == Pcmp2([o EXCEPT !.s = Some(SOf(o))])

\* The objects whose rows can be computed: those the constructor returns,
\* without raising, with nogo unset.
Computable(o) ==
    \E tie3 \in BOOLEAN, tie4 \in BOOLEAN :
        LET r == _compute(o, tie3, tie4) IN r.exc = "none" /\ ~r.obj.nogo

\* atan(2^-k) for k = 0..24, in units of 2^-24 rad.
AtanTable ==
    <<13176795, 7778716, 4110060, 2086331, 1047214, 524117, 262123, 131069,
      65536, 32768, 16384, 8192, 4096, 2048, 1024, 512, 256, 128, 64, 32,
      16, 8, 4, 2, 1>>

\* Angles are counted in units of 2^-AngleBits rad.
AngleBits == Len(AtanTable) - 1

\* math.pi in the same units.
PiUnits == 4 * AtanTable[1]

\* The vector (x, y) scaled to have its larger component in [2^26, 2^27).
RECURSIVE Normalize(_, _)
Normalize(x, y) ==
    LET m == IF x > y THEN x ELSE y
    IN  IF m >= Pow2(27) THEN Normalize(x \div 2, y \div 2)
        ELSE IF m < Pow2(26) THEN Normalize(2 * x, 2 * y)
        ELSE <<x, y>>

\* CORDIC in vectoring mode: the vector is turned onto the x axis by the
\* angles of AtanTable, whose sum z is its angle.
RECURSIVE CordicIter(_, _, _, _)
CordicIter(x, y, z, k) ==
    IF k > Len(AtanTable) THEN z
    ELSE LET p == Pow2(k - 1)
         IN  IF y > 0
             THEN CordicIter(x + y \div p, y - x \div p, z + AtanTable[k], k + 1)
             ELSE CordicIter(x - y \div p, y + x \div p, z - AtanTable[k], k + 1)

\* atan2(y, x) for x >= 0, y >= 0, not both zero.
Cordic(y, x) == LET v == Normalize(x, y) IN CordicIter(v[1], v[2], 0, 1)

\* The least shift of the three roots that keeps ppar3 * d and pperp3 * d in
\* 32 bits.
RECURSIVE RootShift(_, _, _, _, _, _, _)
RootShift(c1, r1, c2, r2, c3, r3, t) ==
    IF Fits(c1, r1 \div Pow2(t)) /\ Fits(c2, r2 \div Pow2(t)) /\ Fits(c3, r3 \div Pow2(t))
    THEN t
    ELSE RootShift(c1, r1, c2, r2, c3, r3, t + 1)

\* An angle of z units as a float.
AngleToFloat(z) == Round(z * Pow2(OneExp - AngleBits), 1)

\* Line 270: theta3 = acos(ppar3 / ptot3) at coscm = i/n, as the set of the
\* floats the code can produce.  At coscm = 1 ppar3 > 0 and pperp3 = 0; at
\* coscm = -1 the sign of ppar3 = e03 * thesinh - pcmp * thecosh decides
\* between 0 and pi, and rounding decides when the two products are equal.
theta3(o, i) ==
    LET n == o.ncoscm
        s == SOf(o)
        pcm2 == Pcm2Of(o)
        pcmp2 == Pcmp2Of(o)
        E == CoshNum(o)
        F == E03Num(o)
        sg == F * F * pcm2 - E * E * pcmp2
        rp == Root16(pcmp2)
        rm == Root16(pcm2)
        ry == Root16(pcmp2 * s * (n * n - i * i))
        t == RootShift(Abs(i) * E, rp, n * F, rm, 2 * o.m2, ry, 0)
        x == i * E * (rp \div Pow2(t)) + n * F * (rm \div Pow2(t))
        y == 2 * o.m2 * (ry \div Pow2(t))
    IN  IF i = n THEN {0}
        ELSE IF i = -n
             THEN IF sg > 0 THEN {0}
                  ELSE IF sg < 0 THEN {AngleToFloat(PiUnits)}
                  ELSE {0, AngleToFloat(PiUnits)}
        ELSE IF x >= 0 THEN {AngleToFloat(Cordic(y, x))}
        ELSE {AngleToFloat(PiUnits - Cordic(y, -x))}

\* The floats next to a/d * 2^e units (a >= 0, d > 0): the rounded value,
\* and both neighbours when a/d lies half way between them.
Nearest(a, d) ==
    LET step == StepOf(a, d)
        lo == a \div step
    IN  IF 2 * (a - lo * step) = step
        THEN {lo * (step \div d), (lo + 1) * (step \div d)}
        ELSE {RoundMag(a, d)}

RECURSIVE NearestScaled(_, _, _)
NearestScaled(num, den, e) ==
    IF num = 0 THEN {0}
    ELSE IF e = 0 THEN Nearest(num, den)
    ELSE IF num < Pow2(29) THEN NearestScaled(2 * num, den, e - 1)
    ELSE {v * Pow2(e) : v \in Nearest(num, den)}

\* The largest number q <= 16 of binary places of sqrt(pcmp2 * pcm2) that
\* keeps e3 * d * 2^q in 32 bits.
RECURSIVE RootPlaces(_, _, _, _, _)
RootPlaces(nef, i, r, md, q) ==
    IF /\ nef < Pow2(29 - q)
       /\ Abs(i) * (r \div Pow2(16 - q)) < Pow2(29)
       /\ md[1] < Pow2(29 - q)
       /\ md[2] < Pow2(25 - q)
    THEN q
    ELSE RootPlaces(nef, i, r, md, q - 1)

\* Line 273: e3 = e03 * thecosh + coscm * pcmp * thesinh - m3 at coscm = i/n,
\* as the set of the floats the code can produce.  Where e3 is rational and
\* half way between two floats, the double the code computes lies within its
\* rounding error of that point, on either side.
e3(o, i) ==
    LET n == o.ncoscm
        d == 4 * SOf(o) * o.m2 * n
        nef == n * CoshNum(o) * E03Num(o)
        n3 == Pcmp2Of(o) * Pcm2Of(o)
        r == ISqrt(n3)
        exact == i = 0 \/ r * r = n3
        q == RootPlaces(nef, i, Root16(n3), <<o.m3 * d, d>>, 16)
        v == IF exact THEN nef + i * r - o.m3 * d
             ELSE nef * Pow2(q) + i * (Root16(n3) \div Pow2(16 - q)) - o.m3 * d * Pow2(q)
        w == IF exact THEN d ELSE d * Pow2(q)
        mags == IF exact THEN NearestScaled(Abs(v), w, OneExp)
                ELSE {RoundScaled(Abs(v), w, OneExp)}
    IN  {IF v < 0 THEN -m ELSE m : m \in mags}

\* The object with the two final particles exchanged.  ppar4, e4 and v4 are
\* ppar3, e3 and v3 of the exchanged reaction at -coscm, and pperp4 = pperp3.
Swap(o) == [o EXCEPT !.m3 = o.m4, !.m4 = o.m3]

\* theta_cm = math.acos(coscm) at coscm = i/n.
theta_cm(o, i) ==
    LET n == o.ncoscm
        z == Cordic(Root16(n * n - i * i), Abs(i) * Pow2(16))
    IN  IF i = n THEN {0}
        ELSE IF i = -n THEN {AngleToFloat(PiUnits)}
        ELSE IF i >= 0 THEN {AngleToFloat(z)}
        ELSE {AngleToFloat(PiUnits - z)}

\* Line 271.
theta4(o, i) == theta3(Swap(o), -i)

\* Line 274.
e4(o, i) == e3(Swap(o), -i)

\* ptot3 and e3 + m3 where both are rational, as Some(<<p, v, d>>) with
\* ptot3 = p/d and e3 + m3 = v/d.  ptot3^2 = (e3 + m3)^2 - m3^2, so ptot3 is
\* rational exactly when e3 is and (v - m3 d)(v + m3 d) is a square.
ExactMomentum(o, i) ==
    LET n == o.ncoscm
        d == 4 * SOf(o) * o.m2 * n
        n3 == Pcmp2Of(o) * Pcm2Of(o)
        r == ISqrt(n3)
        v == n * CoshNum(o) * E03Num(o) + i * r
        a == v - o.m3 * d
        b == v + o.m3 * d
        g == Gcd(a, b)
        ra == ISqrt(a \div g)
        rb == ISqrt(b \div g)
    IN  IF ~(i = 0 \/ r * r = n3) THEN None
        ELSE IF a = 0 THEN Some(<<0, v, d>>)
        ELSE IF ra * ra # a \div g \/ rb * rb # b \div g THEN None
        ELSE Some(<<g * ra * rb, v, d>>)

\* The least shift t that keeps ppar3 * d, pperp3 * d and (e3 + m3) * d,
\* each times 2^(16 - t), in 32 bits.
RECURSIVE VecShift(_, _, _, _, _, _, _, _, _, _)
VecShift(c1, r1, c2, r2, c3, r3, c4, r4, a, t) ==
    IF /\ Fits(c1, r1 \div Pow2(t)) /\ Fits(c2, r2 \div Pow2(t))
       /\ Fits(c3, r3 \div Pow2(t)) /\ Fits(c4, r4 \div Pow2(t))
       /\ a < Pow2(13 + t)
    THEN t
    ELSE VecShift(c1, r1, c2, r2, c3, r3, c4, r4, a, t + 1)

\* Lines 262-263 and the e3 + m3 of line 276, times d * 2^(16 - t).
Vec(o, i) ==
    LET n == o.ncoscm
        E == CoshNum(o)
        F == E03Num(o)
        rp == Root16(Pcmp2Of(o))
        rm == Root16(Pcm2Of(o))
        ry == Root16(Pcmp2Of(o) * SOf(o) * (n * n - i * i))
        r3 == Root16(Pcmp2Of(o) * Pcm2Of(o))
        a == n * E * F
        t == VecShift(Abs(i) * E, rp, n * F, rm, 2 * o.m2, ry, Abs(i), r3, a, 0)
    IN  [x |-> i * E * (rp \div Pow2(t)) + n * F * (rm \div Pow2(t)),
         y |-> 2 * o.m2 * (ry \div Pow2(t)),
         e |-> a * Pow2(16 - t) + i * (r3 \div Pow2(t)),
         t |-> t]

\* The vector (x, y) scaled to have its larger component in [2^26, 2^27),
\* with the number a of doublings it took.
RECURSIVE NormalizeExp(_, _, _)
NormalizeExp(x, y, a) ==
    LET m == IF x > y THEN x ELSE y
    IN  IF m >= Pow2(27) THEN NormalizeExp(x \div 2, y \div 2, a - 1)
        ELSE IF m < Pow2(26) THEN NormalizeExp(2 * x, 2 * y, a + 1)
        ELSE <<x, y, a>>

\* The x the CORDIC rotations leave: the length of the vector times their
\* gain.
RECURSIVE CordicLength(_, _, _)
CordicLength(x, y, k) ==
    IF k > Len(AtanTable) THEN x
    ELSE LET p == Pow2(k - 1)
         IN  IF y > 0 THEN CordicLength(x + y \div p, y - x \div p, k + 1)
             ELSE CordicLength(x - y \div p, y + x \div p, k + 1)

\* 2^24 over the gain of the rotations, prod sqrt(1 + 4^-k) for k = 0..24.
InverseGain == 10188014

\* x * c / 2^24 for x < 2^29, c < 2^24.
MulShift(x, c) ==
    LET xh == x \div 4096
        xl == x % 4096
        ch == c \div 4096
        cl == c % 4096
    IN  xh * ch + (xh * cl + xl * ch) \div 4096

\* Line 264: math.hypot(x, y) for x >= 0, y >= 0, not both zero, as <<h, a>>
\* with hypot = h * 2^-a.
Hypot(x, y) ==
    LET v == NormalizeExp(x, y, 0)
    IN  <<MulShift(CordicLength(v[1], v[2], 1), InverseGain), v[3]>>

\* num/den * 2^e units (num >= 0, den > 0, e of either sign) rounded to a
\* float, num and den carrying a rounding error of their own.
RECURSIVE RoundRatio(_, _, _)
RoundRatio(num, den, e) ==
    IF den >= Pow2(23) THEN RoundRatio(num, den \div 2, e - 1)
    ELSE IF e >= 0 THEN RoundScaled(num, den, e)
    ELSE IF den < Pow2(22) THEN RoundRatio(num, 2 * den, e + 1)
    ELSE RoundRatio(num \div 2, den, e + 1)

\* p3 = ptot3 = math.hypot(ppar3, pperp3) at coscm = i/n (lines 264, 288).
p3(o, i) ==
    LET x == ExactMomentum(o, i)
        v == Vec(o, i)
        h == Hypot(Abs(v.x), v.y)
    IN  IF x # None THEN NearestScaled(Val(x)[1], Val(x)[3], OneExp)
        ELSE {RoundRatio(h[1], 4 * SOf(o) * o.m2 * o.ncoscm, OneExp + v.t - 16 - h[2])}

\* Line 276: v3 = ptot3 / (e3 + self.m3).
v3(o, i) ==
    LET x == ExactMomentum(o, i)
        v == Vec(o, i)
        h == Hypot(Abs(v.x), v.y)
    IN  IF x # None THEN NearestScaled(Val(x)[1], Val(x)[2], OneExp)
        ELSE {RoundRatio(h[1], v.e, OneExp - h[2])}

\* Lines 268, 277 and 289.
p4(o, i) == p3(Swap(o), -i)
v4(o, i) == v3(Swap(o), -i)

\* The derived columns of one row (lines 279-290).
Rows(o, i) ==
    {[theta_cm |-> tc, theta3 |-> t3, theta4 |-> t4, e3 |-> en3, e4 |-> en4,
      v3 |-> ve3, v4 |-> ve4, p3 |-> pe3, p4 |-> pe4] :
        tc \in theta_cm(o, i), t3 \in theta3(o, i), t4 \in theta4(o, i),
        en3 \in e3(o, i), en4 \in e4(o, i),
        ve3 \in v3(o, i), ve4 \in v4(o, i), pe3 \in p3(o, i), pe4 \in p4(o, i)}

\* int / int of line 303.
Coscm(o, i) == IntDiv(i, o.ncoscm)

\* The row functions of the object: one row for each coscm of the grid.
RECURSIVE RowFunctions(_, _)
RowFunctions(o, i) ==
    IF i > o.ncoscm THEN {<<>>}
    ELSE {(Coscm(o, i) :> r) @@ f : r \in Rows(o, i), f \in RowFunctions(o, i + 1)}

\* keys of _build_table (line 298) and of compute_arrays (line 378).
Keys == <<"coscm", "theta_cm", "theta3", "theta4", "e3", "e4", "v3", "v4", "p3", "p4">>
ArrayKeys == <<"coscm", "theta_cm", "theta3", "theta4", "e3", "e4", "v3", "v4">>

Range(q) == {q[j] : j \in 1..Len(q)}

\* The coscm values of range(-n, n + 1).
Grid(n) == {IntDiv(i, n) : i \in -n..n}

\* An object _compute did not finish has no rows.
NoRows(n) == [c \in Grid(n) |-> [k \in Range(Tail(Keys)) |-> 0]]

\* What _kinematics_at_coscm returns on the objects it can be called on.
Oracles(o) == IF Computable(o) THEN RowFunctions(o, -o.ncoscm) ELSE {NoRows(o.ncoscm)}

\* A variant of the row function that reads unset invariants as numbers.
_kinematics_at_coscm_defaulted(o, orc, coscm) ==
    [exc |-> "none", row |-> [coscm |-> coscm] @@ orc[coscm]]

_kinematics_at_coscm(o, orc, coscm) ==
    IF o.pcmp = None \/ o.thecosh = None \/ o.e03 = None \/ o.thesinh = None
    THEN [exc |-> "TypeError", row |-> <<>>]
    ELSE [exc |-> "none", row |-> [coscm |-> coscm] @@ orc[coscm]]

\* The loop of _build_table and of compute_arrays: rows for i in lo..hi,
\* appended to the columns named by keys.
RECURSIVE FillColumns(_, _, _, _, _, _)
FillColumns(o, orc, keys, i, hi, cols) ==
    IF i > hi THEN [exc |-> "none", cols |-> cols]
    ELSE LET r == _kinematics_at_coscm(o, orc, IntDiv(i, o.ncoscm))
         IN  IF r.exc # "none" THEN [exc |-> r.exc, cols |-> cols]
             ELSE FillColumns(o, orc, keys, i + 1, hi,
                              [k \in Range(keys) |-> Append(cols[k], r.row[k])])

EmptyColumns(keys) == [k \in Range(keys) |-> <<>>]

\* A variant of the table loop over range(-n, n), one row short.
_build_table_short(o, orc) ==
    FillColumns(o, orc, Keys, -o.ncoscm, o.ncoscm - 1, EmptyColumns(Keys))

_build_table(o, orc) ==
    FillColumns(o, orc, Keys, -o.ncoscm, o.ncoscm, EmptyColumns(Keys))

compute_arrays(o, orc) ==
    FillColumns(o, orc, ArrayKeys, -o.ncoscm, o.ncoscm, EmptyColumns(ArrayKeys))

(***************************************************************************)
(* at_value.                                                               *)
(***************************************************************************)
\* results[k].sort(reverse = True)
RECURSIVE InsertDesc(_, _)
InsertDesc(v, q) ==
    IF q = <<>> THEN <<v>>
    ELSE IF v > Head(q) THEN <<v>> \o q
    ELSE <<Head(q)>> \o InsertDesc(v, Tail(q))

\* A variant that leaves the matches in row order.
Unsorted(q) == q

RECURSIVE SortDesc(_)
SortDesc(q) == IF q = <<>> THEN <<>> ELSE InsertDesc(q[Len(q)], SortDesc(SubSeq(q, 1, Len(q) - 1)))

\* TwoBody._unique
RECURSIVE UniqueFrom(_, _, _, _)
UniqueFrom(arr, tol, j, out) ==
    IF j > Len(arr) THEN out
    ELSE IF \E u \in Range(out) : Abs(FSub(arr[j], u)) < tol
         THEN UniqueFrom(arr, tol, j + 1, out)
         ELSE UniqueFrom(arr, tol, j + 1, Append(out, arr[j]))

_unique(arr, tol) == UniqueFrom(arr, tol, 1, <<>>)

\* A variant of the bracket test with a strict inequality.
BracketsStrict(x0, x1, x) == FMul(FSub(x0, x), FSub(x1, x)) < 0 /\ x0 # x1

\* The bracket test of line 347.
Brackets(x0, x1, x) == FMul(FSub(x0, x), FSub(x1, x)) <= 0 /\ x0 # x1

\* Lines 350-356.
Interpolate(x0, x1, y0, y1, x) ==
    LET t == FDiv(FSub(x, x0), FSub(x1, x0))
    IN  FAdd(y0, FMul(t, FSub(y1, y0)))

\* A variant of the loop over y_names that skips the names that are no column.
RECURSIVE AppendKnownMatches(_, _, _, _, _, _)
AppendKnownMatches(tbl, x_name, x, ynames, i, acc) ==
    IF ynames = <<>> THEN acc
    ELSE LET k == Head(ynames)
             xs == tbl[x_name]
         IN  IF k \notin DOMAIN tbl
             THEN AppendKnownMatches(tbl, x_name, x, Tail(ynames), i, acc)
             ELSE AppendKnownMatches(tbl, x_name, x, Tail(ynames), i,
                     [acc EXCEPT !.results[k] =
                         Append(@, Interpolate(xs[i], xs[i + 1], tbl[k][i], tbl[k][i + 1], x))])

\* for k in y_names (lines 352-357) at the bracketing pair (i, i+1).
RECURSIVE AppendMatches(_, _, _, _, _, _)
AppendMatches(tbl, x_name, x, ynames, i, acc) ==
    IF ynames = <<>> THEN acc
    ELSE LET k == Head(ynames)
             xs == tbl[x_name]
         IN  IF k \notin DOMAIN tbl THEN [acc EXCEPT !.exc = "KeyError"]
             ELSE AppendMatches(tbl, x_name, x, Tail(ynames), i,
                     [acc EXCEPT !.results[k] =
                         Append(@, Interpolate(xs[i], xs[i + 1], tbl[k][i], tbl[k][i + 1], x))])

\* A variant of the scan over range(len(xs) - 2), which leaves out the last
\* row pair.
RECURSIVE ScanShort(_, _, _, _, _, _)
ScanShort(tbl, x_name, x, ynames, i, acc) ==
    LET xs == tbl[x_name]
    IN  IF i > Len(xs) - 2 \/ acc.exc # "none" THEN acc
        ELSE IF Brackets(xs[i], xs[i + 1], x)
             THEN ScanShort(tbl, x_name, x, ynames, i + 1,
                       AppendMatches(tbl, x_name, x, ynames, i, [acc EXCEPT !.found = TRUE]))
             ELSE ScanShort(tbl, x_name, x, ynames, i + 1, acc)

\* A variant of the scan that stops at the first bracketing pair.
RECURSIVE ScanFirst(_, _, _, _, _, _)
ScanFirst(tbl, x_name, x, ynames, i, acc) ==
    LET xs == tbl[x_name]
    IN  IF i > Len(xs) - 1 \/ acc.exc # "none" \/ acc.found THEN acc
        ELSE IF xs[i] # xs[i + 1] /\ FMul(FSub(xs[i], x), FSub(xs[i + 1], x)) <= 0
             THEN ScanFirst(tbl, x_name, x, ynames, i + 1,
                       AppendMatches(tbl, x_name, x, ynames, i, [acc EXCEPT !.found = TRUE]))
             ELSE ScanFirst(tbl, x_name, x, ynames, i + 1, acc)

\* for i in range(len(xs) - 1) (lines 343-357); rows are numbered from 1.
RECURSIVE Scan(_, _, _, _, _, _)
Scan(tbl, x_name, x, ynames, i, acc) ==
    LET xs == tbl[x_name]
    IN  IF i > Len(xs) - 1 \/ acc.exc # "none" THEN acc
        ELSE IF Brackets(xs[i], xs[i + 1], x)
             THEN Scan(tbl, x_name, x, ynames, i + 1,
                       AppendMatches(tbl, x_name, x, ynames, i, [acc EXCEPT !.found = TRUE]))
             ELSE Scan(tbl, x_name, x, ynames, i + 1, acc)

\* y_names as passed: None, one string, or a list.
NoNames == [kind |-> "None", v |-> <<>>]
OneName(k) == [kind |-> "str", v |-> <<k>>]
NameList(q) == [kind |-> "list", v |-> q]

\* Lines 331-368, on the built table tbl.
Lookup(tbl, x_name, x, y_names, tol) ==
    LET ynames == IF y_names.kind = "None" THEN Keys ELSE y_names.v
        start == [found |-> FALSE, exc |-> "none", results |-> [k \in Range(ynames) |-> <<>>]]
        scan == Scan(tbl, x_name, x, ynames, 1, start)
    IN  IF x_name \notin DOMAIN tbl THEN [exc |-> "KeyError", val |-> <<>>]
        ELSE IF scan.exc # "none" THEN [exc |-> scan.exc, val |-> <<>>]
        ELSE IF ~scan.found THEN [exc |-> "ValueError", val |-> <<>>]
        ELSE [exc |-> "none",
              val |-> [k \in DOMAIN scan.results |-> _unique(SortDesc(scan.results[k]), tol)]]

\* A variant of at_value that rebuilds the table on every call.
at_value_rebuilding(o, tbl, orc, x_name, x, y_names, tol) ==
    LET build == _build_table(o, orc)
        r == Lookup(build.cols, x_name, x, y_names, tol)
    IN  IF build.exc # "none"
        THEN [table |-> tbl, built |-> FALSE, exc |-> build.exc, val |-> <<>>]
        ELSE [table |-> Some(build.cols), built |-> TRUE, exc |-> r.exc, val |-> r.val]

\* Lines 328-368: the table after the call, whether this call built it, and
\* what the call returns or raises.
at_value(o, tbl, orc, x_name, x, y_names, tol) ==
    LET build == IF tbl = None THEN _build_table(o, orc) ELSE [exc |-> "none", cols |-> Val(tbl)]
        r == Lookup(build.cols, x_name, x, y_names, tol)
    IN  IF build.exc # "none"
        THEN [table |-> tbl, built |-> FALSE, exc |-> build.exc, val |-> <<>>]
        ELSE [table |-> Some(build.cols), built |-> (tbl = None), exc |-> r.exc, val |-> r.val]

(***************************************************************************)
(* The inputs.                                                             *)
(***************************************************************************)
\* duplicate_tol = 1e-6, the default of line 310, as a float.
DuplicateTol == Round(One, 1000000)

\* The reactions of the interpolation runs: the elastic scattering of a light
\* projectile on a heavier target, that of a heavy projectile on a light
\* target, whose theta3 rises and falls again, that of equal masses, whose
\* e3 falls to zero, and two particles at rest turning into two massless
\* ones, whose e3 is the same at every coscm.
Reactions == {<<1, 2, 1, 2, 1>>, <<3, 1, 3, 1, 1>>, <<1, 1, 1, 1, 1>>, <<1, 1, 0, 0, 0>>}

\* x targets: the sampled coscm values, a value below and one above every
\* column, the smallest negative float, and values inside the ranges.
Targets(n) ==
    Grid(n) \cup {-2 * One, -1, (5 * One) \div 16, (5 * One) \div 8, (5 * One) \div 4,
                  2 * One, 4 * One}

\* x_name: columns of the table and a name that is no column.
XNames == {"coscm", "theta_cm", "theta3", "theta4", "e3", "theta5"}

\* y_names: the default, one name, and a list with a name that is no column.
YNames == {NoNames, OneName("e3"), NameList(<<"theta3", "theta5">>)}

Tols == {0, DuplicateTol, 4 * One}

NoCall == [op |-> "none", x_name |-> "", x |-> 0, y_names |-> NoNames, tol |-> 0,
           exc |-> "none", val |-> <<>>]

Query(x_name, x, y_names, tol) ==
    [x_name |-> x_name, x |-> x, y_names |-> y_names, tol |-> tol]

Queries(n) ==
    {Query(x_name, x, y_names, tol) :
        x_name \in XNames, x \in Targets(n), y_names \in YNames, tol \in Tols}

\* The queries of the solver runs.
SolveQueries ==
    {Query("coscm", 0, NoNames, DuplicateTol), Query("coscm", 2 * One, NoNames, DuplicateTol),
     Query("theta5", 0, NoNames, DuplicateTol)}

(***************************************************************************)
(* The state machine: the object is constructed, then queried.  query is   *)
(* the at_value call the caller makes: one call, repeated, in Spec; any    *)
(* sequence of the calls of SolveQueries in SpecSolve.  SpecElastic is the *)
(* constructor alone on elastic reactions.                                 *)
(***************************************************************************)
TypeOK ==
    /\ pc \in {"new", "ready", "raised"}
    /\ nbuilds \in 0..2
    /\ reused \in BOOLEAN
    /\ table = None \/ DOMAIN Val(table) = Range(Keys)

\* A reaction of Reactions, any sampling and any query.
Init ==
    /\ pc = "new"
    /\ \E r \in Reactions, n \in 1..MaxN : self = NewObject(r[1], r[2], r[3], r[4], r[5], n)
    /\ table = None
    /\ oracle \in Oracles(self)
    /\ query \in Queries(self.ncoscm)
    /\ nbuilds = 0
    /\ reused = FALSE
    /\ ret = NoCall

\* Every reaction within the bounds.
InitSolve ==
    /\ pc = "new"
    /\ \E m1 \in 1..MaxMass, m2 \in 1..MaxMass, m3 \in 1..MaxMass, m4 \in 1..MaxMass,
          ek \in -MaxEk..MaxEk, n \in 1..MaxNSolve :
          self = NewObject(m1, m2, m3, m4, ek, n)
    /\ table = None
    /\ oracle \in Oracles(self)
    /\ query \in SolveQueries
    /\ nbuilds = 0
    /\ reused = FALSE
    /\ ret = NoCall

\* TwoBody(m1, m2, m3, m4, ek): __init__ ends with _compute.
Construct ==
    /\ pc = "new"
    /\ \E r \in {_compute(self, tie3, tie4) : tie3 \in BOOLEAN, tie4 \in BOOLEAN} :
           /\ pc' = IF r.exc = "none" THEN "ready" ELSE "raised"
           /\ self' = r.obj
           /\ ret' = [NoCall EXCEPT !.op = "__init__", !.exc = r.exc]
    /\ UNCHANGED <<table, oracle, query, nbuilds, reused>>

\* self.at_value(x_name, x, y_names = y_names, duplicate_tol = tol)
AtValue ==
    /\ pc = "ready"
    /\ \E r \in {at_value(self, table, oracle, query.x_name, query.x, query.y_names, query.tol)} :
           /\ table' = r.table
           /\ nbuilds' = IF r.built THEN (IF nbuilds < 2 THEN nbuilds + 1 ELSE 2) ELSE nbuilds
           /\ ret' = [op |-> "at_value", x_name |-> query.x_name, x |-> query.x,
                      y_names |-> query.y_names, tol |-> query.tol,
                      exc |-> r.exc, val |-> r.val]
    /\ reused' = (table # None)
    /\ UNCHANGED <<pc, self, oracle, query>>

\* self.compute_arrays()
ComputeArrays ==
    /\ pc = "ready"
    /\ \E r \in {compute_arrays(self, oracle)} :
           ret' = [NoCall EXCEPT !.op = "compute_arrays", !.exc = r.exc,
                                 !.val = IF r.exc = "none" THEN r.cols ELSE <<>>]
    /\ UNCHANGED <<pc, self, table, oracle, query, nbuilds, reused>>

Next == Construct \/ AtValue \/ ComputeArrays

Spec == Init /\ [][Next]_vars

\* The caller of the solver runs changes its query between calls.
Requery ==
    /\ pc = "ready"
    /\ query' \in SolveQueries \ {query}
    /\ UNCHANGED <<pc, self, table, oracle, nbuilds, reused, ret>>

NextSolve == Construct \/ AtValue \/ ComputeArrays \/ Requery

SpecSolve == InitSolve /\ [][NextSolve]_vars

\* Masses around the cut of the elastic symmetry case, abs(thetatest - 1.0)
\* < 1e-3 (lines 229, 252): the ratios 1001/1000 on the cut, 1002/1001 below
\* it and 1002/1000 above it.
CutMasses == {1000, 1001, 1002}

ElasticMasses == (1..MaxMass) \cup CutMasses

\* The elastic reactions m1 + m2 -> m1 + m2 of the masses within the bounds
\* and around the cut, at an energy of whole units or at one lost in s.
ElasticObjects ==
    {NewObject(m1, m2, m1, m2, ek, n) :
        m1 \in ElasticMasses, m2 \in ElasticMasses, ek \in 0..MaxEk, n \in 1..MaxNSolve}
    \cup {LostEnergy(NewObject(m1, m2, m1, m2, 0, n)) :
        m1 \in ElasticMasses, m2 \in ElasticMasses, n \in 1..MaxNSolve}

\* The constructor alone, on the elastic reactions.  No call is made on these
\* objects and their rows are not evaluated: oracle is None.
InitElastic ==
    /\ pc = "new"
    /\ self \in ElasticObjects
    /\ table = None
    /\ oracle = None
    /\ query \in SolveQueries
    /\ nbuilds = 0
    /\ reused = FALSE
    /\ ret = NoCall

NextElastic == Construct

SpecElastic == InitElastic /\ [][NextElastic]_vars

(***************************************************************************)
(* Vocabulary of the properties.                                           *)
(***************************************************************************)
KeySet == Range(Keys)

Queried == ret.op = "at_value" /\ table # None

\* The names the last query asks for.
Requested == IF ret.y_names.kind = "None" THEN KeySet ELSE Range(ret.y_names.v)

ColMin(q) == CHOOSE v \in Range(q) : \A w \in Range(q) : v <= w
ColMax(q) == CHOOSE v \in Range(q) : \A w \in Range(q) : v >= w

\* The row pairs (i, i+1) of column xn that bracket x.
MatchIdx(tbl, xn, x) ==
    {i \in 1..(Len(tbl[xn]) - 1) : Brackets(tbl[xn][i], tbl[xn][i + 1], x)}

\* The interpolation of column k at the bracketing pair (i, i+1).
MatchVal(tbl, xn, k, x, i) ==
    Interpolate(tbl[xn][i], tbl[xn][i + 1], tbl[k][i], tbl[k][i + 1], x)

\* The rows whose sampled coscm is x.
RowsAt(tbl, x) == {i \in 1..Len(tbl["coscm"]) : tbl["coscm"][i] = x}

\* The interpolation of the pair (i-1, i) at t = 1: y0 + 1.0*(y1 - y0).
LeftLerp(col, i) == FAdd(col[i - 1], FMul(One, FSub(col[i], col[i - 1])))

(***************************************************************************)
(* C1.  For every column x_name and every x_target strictly below the      *)
(* minimum or strictly above the maximum of that column, at_value fails    *)
(* with the out-of-range ValueError, whatever y_names and duplicate_tol.   *)
(* The code does not keep this: (x0 - x)*(x1 - x) underflows to 0.0 for a  *)
(* target one subnormal below a column minimum of 0.0, and the pair counts *)
(* as a bracket.                                                           *)
(***************************************************************************)
C1_OutOfRangeFails ==
    (Queried /\ ret.x_name \in KeySet) =>
        LET col == Val(table)[ret.x_name]
        IN  (ret.x < ColMin(col) \/ ret.x > ColMax(col)) => ret.exc = "ValueError"

(***************************************************************************)
(* C2, as claimed.  at_value("coscm", c_i) with c_i the sampled coscm of   *)
(* row i returns, for every column, exactly one value, equal to the        *)
(* table's entry at row i.                                                 *)
(***************************************************************************)
C2_RoundTripExact ==
    (Queried /\ ret.x_name = "coscm" /\ ret.y_names = NoNames /\ ret.tol = DuplicateTol) =>
        \A i \in RowsAt(Val(table), ret.x) :
            /\ ret.exc = "none"
            /\ \A k \in KeySet : ret.val[k] = <<Val(table)[k][i]>>

(***************************************************************************)
(* C2, amended.  at_value("coscm", c_i) succeeds for every row i and       *)
(* returns, for every requested column, one or two values, each either the *)
(* table's entry at row i or the interpolation of the pair (i-1, i) at     *)
(* t = 1, y0 + 1.0*(y1 - y0), which rounding can move off the entry; with  *)
(* duplicate_tol > 0 the result is the single table entry at row 0 and     *)
(* wherever that interpolation evaluates to the entry.                     *)
(***************************************************************************)
C2_RoundTrip ==
    (Queried /\ ret.x_name = "coscm" /\ Requested \subseteq KeySet /\ ret.tol > 0) =>
        \A i \in RowsAt(Val(table), ret.x) :
            /\ ret.exc = "none"
            /\ DOMAIN ret.val = Requested
            /\ \A k \in Requested :
                  LET col == Val(table)[k]
                      got == ret.val[k]
                  IN  /\ Len(got) \in {1, 2}
                      /\ Range(got) \subseteq
                            {col[i]} \cup (IF i > 1 THEN {LeftLerp(col, i)} ELSE {})
                      /\ (i = 1 \/ LeftLerp(col, i) = col[i]) => got = <<col[i]>>

\* An interior row is hit and the value returned for theta3 is not the
\* table's entry.
C2_Witness ==
    /\ Queried /\ ret.x_name = "coscm" /\ ret.exc = "none" /\ ret.tol > 0
    /\ "theta3" \in DOMAIN ret.val
    /\ \E i \in RowsAt(Val(table), ret.x) :
          /\ 1 < i /\ i < Len(Val(table)["coscm"])
          /\ ret.val["theta3"] # <<Val(table)["theta3"][i]>>

(***************************************************************************)
(* C3.  at_value collects every match: for every bracketing row pair and   *)
(* every requested column the interpolated value is in the returned list   *)
(* or within duplicate_tol of a value in it, and every returned value is   *)
(* the interpolation at a bracketing pair.                                 *)
(***************************************************************************)
C3_AllMatches ==
    (Queried /\ ret.x_name \in KeySet /\ Requested \subseteq KeySet) =>
        LET tbl == Val(table)
            M == MatchIdx(tbl, ret.x_name, ret.x)
        IN  /\ (M # {}) <=> (ret.exc = "none")
            /\ ret.exc = "none" =>
                  /\ DOMAIN ret.val = Requested
                  /\ \A k \in Requested :
                        /\ \A i \in M :
                              LET v == MatchVal(tbl, ret.x_name, k, ret.x, i)
                              IN  \/ v \in Range(ret.val[k])
                                  \/ \E u \in Range(ret.val[k]) : Abs(FSub(v, u)) < ret.tol
                        /\ \A u \in Range(ret.val[k]) :
                              \E i \in M : u = MatchVal(tbl, ret.x_name, k, ret.x, i)

\* Two pairs bracket the target and two distinct values come back.
C3_Witness ==
    /\ Queried /\ ret.x_name = "theta3" /\ ret.exc = "none"
    /\ Cardinality(MatchIdx(Val(table), ret.x_name, ret.x)) >= 2
    /\ "coscm" \in DOMAIN ret.val
    /\ Len(ret.val["coscm"]) >= 2

(***************************************************************************)
(* C4.  Each returned list is the matches sorted in descending order and   *)
(* deduplicated first-kept-wins: a sorted match is dropped exactly when it *)
(* lies within duplicate_tol of a match kept before it.  The list is       *)
(* therefore descending, and its values are pairwise at least              *)
(* duplicate_tol apart.                                                    *)
(***************************************************************************)
RECURSIVE SelectMax(_, _)
\* The values f[i], i in I, largest first (one entry per index).
SelectMax(f, I) ==
    IF I = {} THEN <<>>
    ELSE LET i == CHOOSE a \in I : \A b \in I : f[a] >= f[b]
         IN  <<f[i]>> \o SelectMax(f, I \ {i})

\* K is the set of positions of S that first-kept-wins keeps.
KeptBy(S, K, tol) ==
    \A j \in 1..Len(S) :
        (j \in K) <=> (\A k \in K : k < j => Abs(FSub(S[j], S[k])) >= tol)

RECURSIVE Pick(_, _, _)
\* The subsequence of S at the positions of K, from position j on.
Pick(S, K, j) ==
    IF j > Len(S) THEN <<>>
    ELSE (IF j \in K THEN <<S[j]>> ELSE <<>>) \o Pick(S, K, j + 1)

C4_SortedDeduplicated ==
    (Queried /\ ret.exc = "none") =>
        LET tbl == Val(table)
            M == MatchIdx(tbl, ret.x_name, ret.x)
        IN  \A k \in DOMAIN ret.val :
                LET f == [i \in M |-> MatchVal(tbl, ret.x_name, k, ret.x, i)]
                    S == SelectMax(f, M)
                    got == ret.val[k]
                IN  /\ \A a, b \in 1..Len(got) : a < b =>
                          /\ got[a] >= got[b]
                          /\ Abs(FSub(got[a], got[b])) >= ret.tol
                    /\ \E K \in SUBSET (1..Len(S)) :
                          KeptBy(S, K, ret.tol) /\ got = Pick(S, K, 1)

\* Two pairs bracket the target with different interpolated values, and the
\* smaller one is dropped against the larger one.
C4_Witness ==
    /\ Queried /\ ret.exc = "none" /\ ret.tol > 0 /\ ret.x_name = "theta3"
    /\ "coscm" \in DOMAIN ret.val
    /\ Len(ret.val["coscm"]) = 1
    /\ \E i, j \in MatchIdx(Val(table), ret.x_name, ret.x) :
          MatchVal(Val(table), ret.x_name, "coscm", ret.x, i)
              > MatchVal(Val(table), ret.x_name, "coscm", ret.x, j)

(***************************************************************************)
(* C8, as claimed.  A call of at_value whose x_name or one of whose        *)
(* y_names is not a column fails with KeyError, whatever the target.       *)
(***************************************************************************)
C8_UnknownColumnFails ==
    (Queried /\ (ret.x_name \notin KeySet \/ ~(Requested \subseteq KeySet))) =>
        ret.exc = "KeyError"

(***************************************************************************)
(* C8, amended.  On a solved object, an unknown x_name fails with KeyError *)
(* for every target.  An unknown y_name beside a known x_name fails with   *)
(* KeyError when some row pair brackets the target and with the            *)
(* out-of-range ValueError when none does.  No call returns a mapping      *)
(* with a name that is not a column.                                       *)
(***************************************************************************)
C8_UnknownColumn ==
    Queried =>
        /\ ret.x_name \notin KeySet => ret.exc = "KeyError"
        /\ (ret.x_name \in KeySet /\ ~(Requested \subseteq KeySet)) =>
              ret.exc = IF MatchIdx(Val(table), ret.x_name, ret.x) # {}
                        THEN "KeyError" ELSE "ValueError"
        /\ ret.exc = "none" => DOMAIN ret.val \subseteq KeySet

\* An unknown y_name beside a known x_name whose target is bracketed.
C8_Witness ==
    /\ Queried /\ ret.x_name \in KeySet /\ ~(Requested \subseteq KeySet)
    /\ MatchIdx(Val(table), ret.x_name, ret.x) # {}
    /\ ret.exc = "KeyError"

(***************************************************************************)
(* C9.  The table has 2n+1 rows in every column; row k (from 0) has        *)
(* coscm = (k-n)/n, correctly rounded, so coscm is strictly increasing     *)
(* from exactly -1 to exactly +1; compute_arrays returns the same columns  *)
(* as the table at_value builds for the same object.                       *)
(***************************************************************************)
C9_Grid ==
    /\ table # None =>
          LET tbl == Val(table)
              n == self.ncoscm
              c == tbl["coscm"]
          IN  /\ \A k \in KeySet : Len(tbl[k]) = 2 * n + 1
              /\ c[1] = -One /\ c[2 * n + 1] = One
              /\ \A j \in 1..(2 * n + 1) :
                    2 * Abs(c[j] * n - (j - 1 - n) * One) <= n * StepOf(Abs(c[j]), 1)
              /\ \A j \in 1..(2 * n) : c[j] < c[j + 1]
    /\ (ret.op = "compute_arrays" /\ ret.exc = "none") =>
          /\ \A k \in Range(ArrayKeys) : Len(ret.val[k]) = 2 * self.ncoscm + 1
          /\ table # None => \A k \in Range(ArrayKeys) : ret.val[k] = Val(table)[k]

\* compute_arrays has returned on an object whose table at_value has built.
C9_Witness ==
    /\ table # None
    /\ ret.op = "compute_arrays" /\ ret.exc = "none"
    /\ Len(ret.val["coscm"]) = 2 * self.ncoscm + 1

(***************************************************************************)
(* Vocabulary of the solver properties.                                    *)
(***************************************************************************)
\* pcm2 and pcmp2 of lines 178 and 192, from the masses and the energy.
Kallen(sv, ma, mb) == (sv - ma * ma - mb * mb) * (sv - ma * ma - mb * mb) - 4 * ma * ma * mb * mb

\* The configuration is kinematically forbidden.
Forbidden(o) ==
    \/ SOf(o) <= 0
    \/ Kallen(SOf(o), o.m1, o.m2) < 0
    \/ Kallen(SOf(o), o.m3, o.m4) < 0

Invariants == {"s", "pcm", "pcmp", "cmrap", "thesinh", "thecosh",
               "e03", "e04", "emax3", "emin3", "emax4", "emin4"}

(***************************************************************************)
(* C5.  The table is built at most once per object, by the first at_value  *)
(* call that needs it; once built no call changes it, and no call after    *)
(* construction changes the solved state, whether the call returns or      *)
(* fails.                                                                  *)
(***************************************************************************)
C5_TableBuiltOnce ==
    [][ /\ nbuilds' <= 1
        /\ table # None => table' = table
        /\ table' # table => (ret'.op = "at_value" /\ nbuilds' = nbuilds + 1)
        /\ pc = "ready" => self' = self ]_vars

\* A call has failed on an object whose table an earlier call built.
C5_Witness ==
    /\ table # None /\ nbuilds = 1 /\ reused
    /\ ret.op = "at_value" /\ ret.exc = "ValueError"

(***************************************************************************)
(* C6, as claimed.  Construction of a kinematically forbidden              *)
(* configuration does not complete as an ordinary success.                 *)
(***************************************************************************)
C6_ForbiddenConstructionFails ==
    (pc # "new" /\ Forbidden(self)) => pc = "raised"

(***************************************************************************)
(* C6, amended.  Construction of a forbidden configuration returns         *)
(* normally, with nogo set and pcmp, e03 and e04 left unset; every         *)
(* at_value and compute_arrays call on such an object fails with           *)
(* TypeError, which is neither the out-of-range ValueError nor KeyError,   *)
(* and builds no table.  No call on a solved object fails with TypeError.  *)
(***************************************************************************)
C6_ForbiddenUnusable ==
    /\ (pc # "new" /\ Forbidden(self)) =>
          /\ pc = "ready" /\ self.nogo
          /\ self.pcmp = None /\ self.e03 = None /\ self.e04 = None
          /\ table = None
          /\ ret.op \in {"at_value", "compute_arrays"} =>
                (ret.exc = "TypeError" /\ ret.val = <<>>)
    /\ (pc # "new" /\ ~Forbidden(self)) => (~self.nogo /\ ret.exc # "TypeError")

\* at_value has failed on a forbidden configuration.
C6_Witness ==
    /\ pc = "ready" /\ Forbidden(self) /\ self.nogo
    /\ ret.op = "at_value" /\ ret.exc = "TypeError"

(***************************************************************************)
(* C7.  Construction with positive masses and a finite energy completes    *)
(* without raising; afterwards nogo is set exactly when the configuration  *)
(* is forbidden, and when it is not set every invariant is defined.  The   *)
(* code does not keep this: it divides by thesinh = 0 when pcm = 0 and by  *)
(* pcmp = 0 at the threshold of the exit channel.                          *)
(***************************************************************************)
C7_ConstructionTotal ==
    pc # "new" =>
        /\ pc = "ready"
        /\ self.nogo <=> Forbidden(self)
        /\ ~self.nogo => \A f \in Invariants : self[f] # None

(***************************************************************************)
(* C10, as claimed.  An elastic reaction (m1 = m3, m2 = m4, m3 <= m4) with *)
(* positive energy is solved as valid, with theta3max and theta4max both   *)
(* defined.                                                                *)
(***************************************************************************)
PositiveEnergy(o) == o.ek > 0 \/ o.eklost

ElasticInput(o) == o.m1 = o.m3 /\ o.m2 = o.m4 /\ o.m3 <= o.m4 /\ PositiveEnergy(o)

InRangeQuery ==
    /\ Queried /\ ret.x_name \in KeySet /\ Requested \subseteq KeySet
    /\ ColMin(Val(table)[ret.x_name]) <= ret.x
    /\ ret.x <= ColMax(Val(table)[ret.x_name])

(***************************************************************************)
(* C11, as claimed.  For every column x_name and every target between the  *)
(* minimum and the maximum of that column, at_value succeeds and returns a *)
(* non-empty list for each requested name, also when the column is         *)
(* constant over the whole table.                                          *)
(***************************************************************************)
C11_InRangeSucceeds ==
    InRangeQuery =>
        /\ ret.exc = "none"
        /\ \A k \in Requested : Len(ret.val[k]) >= 1

(***************************************************************************)
(* C11, amended.  For a target between the minimum and the maximum of the  *)
(* column x_name, at_value succeeds with a non-empty list for each         *)
(* requested name exactly when the column is not constant: a run of equal  *)
(* rows is reached through the pair at its edge.  On a column that is      *)
(* constant over the whole table every pair is skipped, and the call fails *)
(* with the out-of-range ValueError although the target is in range.       *)
(***************************************************************************)
C11_InRange ==
    InRangeQuery =>
        LET col == Val(table)[ret.x_name]
        IN  IF ColMin(col) = ColMax(col)
            THEN ret.exc = "ValueError"
            ELSE /\ ret.exc = "none"
                 /\ DOMAIN ret.val = Requested
                 /\ \A k \in Requested : Len(ret.val[k]) >= 1

\* The target is the value of a run of equal rows of a column that is not
\* constant, and the call has succeeded.
C11_Witness ==
    /\ InRangeQuery /\ ret.x_name = "theta3" /\ ret.exc = "none"
    /\ \E i \in 1..(Len(Val(table)["theta3"]) - 1) :
          /\ Val(table)["theta3"][i] = ret.x
          /\ Val(table)["theta3"][i + 1] = ret.x
    /\ \A k \in Requested : Len(ret.val[k]) >= 1

====
